---- MODULE Spec2Model ----
(***************************************************************************)
(* A model of merge.py: the SQL-dump parser (parse_sql_inserts and its     *)
(* nested tokenizer split_sql_values), load_restaurants,                   *)
(* create_final_dataset (column bookkeeping) and main.                     *)
(*                                                                         *)
(* Text is a sequence of one-character strings.  Python indexes from 0,    *)
(* the model from 1.                                                       *)
(***************************************************************************)
EXTENDS Integers, Sequences, FiniteSets, TLC

(***************************************************************************)
(* Bounds of the explored inputs.                                          *)
(***************************************************************************)
\* longest raw record string handed to the tokenizer
MaxRawLen == 4
\* longest content of a quoted literal
MaxContentLen == 3
\* most statements in one SQL text
MaxStmts == 3
\* most tuples in one ragged statement
MaxRecs == 3
\* widest tuple of a ragged statement
MaxWidth == 5

(***************************************************************************)
(* Characters and Python's str helpers.                                    *)
(***************************************************************************)
UpperCase == <<"A","B","C","D","E","F","G","H","I","J","K","L","M",
               "N","O","P","Q","R","S","T","U","V","W","X","Y","Z">>
LowerCase == <<"a","b","c","d","e","f","g","h","i","j","k","l","m",
               "n","o","p","q","r","s","t","u","v","w","x","y","z">>

\* re.IGNORECASE compares letters case-folded
Lower(c) ==
    IF \E k \in 1..26 : UpperCase[k] = c
    THEN LowerCase[CHOOSE k \in 1..26 : UpperCase[k] = c]
    ELSE c

\* what \s matches and what str.strip() removes
IsSpace(c) == c \in {" ", "\t", "\n", "\r"}

QuoteChars == {"'", "\""}

Min(a, b) == IF a < b THEN a ELSE b

\* str.strip(chars): drop leading and trailing characters that are in drop
StripSet(s, drop) ==
    LET keep == {k \in 1..Len(s) : s[k] \notin drop}
    IN  IF keep = {} THEN <<>>
        ELSE SubSeq(s, CHOOSE k \in keep : \A m \in keep : k <= m,
                       CHOOSE k \in keep : \A m \in keep : k >= m)

\* str.strip()
Strip(s) == StripSet(s, {" ", "\t", "\n", "\r"})

(***************************************************************************)
(* The statement pattern of parse_sql_inserts:                             *)
(*   INSERT\s+INTO\s+[bt]?<table>[bt]?\s+VALUES\s*(.+);  IGNORECASE | DOTALL *)
(***************************************************************************)
KwInsert == <<"I","N","S","E","R","T">>
KwInto   == <<"I","N","T","O">>
KwValues == <<"V","A","L","U","E","S">>

\* a literal of the pattern at position p, letters case-folded
MatchLit(text, p, lit) ==
    /\ p + Len(lit) - 1 <= Len(text)
    /\ \A k \in 1..Len(lit) : Lower(text[p + k - 1]) = Lower(lit[k])

\* first position >= p that holds no whitespace (Len(text)+1 when none)
SkipSpaces(text, p) ==
    LET stops == {q \in p..Len(text) : ~IsSpace(text[q])}
    IN  IF stops = {} THEN Len(text) + 1
        ELSE CHOOSE q \in stops : \A m \in stops : q <= m

\* The backtick character (the module's string syntax has no backtick, so
\* the character is named).
Backtick == "BACKTICK"

\* an optional backtick before and after the table name
SkipBacktick(text, p) ==
    IF p <= Len(text) /\ text[p] = Backtick THEN p + 1 ELSE p

\* The position after VALUES when INSERT\s+INTO\s+[backtick]?table[backtick]?\s+VALUES matches
\* at p, and 0 when it does not.
PrefixEnd(text, p, table) ==
    IF ~MatchLit(text, p, KwInsert) THEN 0 ELSE
    LET a == p + Len(KwInsert)
        b == SkipSpaces(text, a)
    IN  IF b = a \/ ~MatchLit(text, b, KwInto) THEN 0 ELSE
    LET c == b + Len(KwInto)
        d == SkipSpaces(text, c)
    IN  IF d = c THEN 0 ELSE
    LET e == SkipBacktick(text, d)
    IN  IF ~MatchLit(text, e, table) THEN 0 ELSE
    LET f == SkipBacktick(text, e + Len(table))
        g == SkipSpaces(text, f)
    IN  IF g = f \/ ~MatchLit(text, g, KwValues) THEN 0
        ELSE g + Len(KwValues)

\* The ';' that ends the greedy (.+) under DOTALL: the last one of the text.
GroupEnd(text, e) ==
    LET semis == {q \in 1..Len(text) : text[q] = ";"}
    IN  IF semis = {} THEN 0
        ELSE CHOOSE q \in semis : \A m \in semis : q >= m

\* One match attempt at p: [ok, group, next], next being where finditer resumes.
\* \s* is greedy and gives characters back only so that (.+) keeps one.
MatchAt(text, p, table) ==
    LET e == PrefixEnd(text, p, table)
        semi == IF e = 0 THEN 0 ELSE GroupEnd(text, e)
    IN  IF e = 0 \/ semi < e + 1
        THEN [ok |-> FALSE, group |-> <<>>, next |-> p + 1]
        ELSE LET ws == SkipSpaces(text, e) - e
                 k  == Min(ws, semi - e - 1)
             IN  [ok |-> TRUE, group |-> SubSeq(text, e + k, semi - 1),
                  next |-> semi + 1]

RECURSIVE FindIter(_, _, _)
\* pattern.finditer(sql_text): the captured groups of the non-overlapping
\* matches, in document order
FindIter(text, from, table) ==
    IF from > Len(text) THEN <<>>
    ELSE LET m == MatchAt(text, from, table)
         IN  IF m.ok THEN <<m.group>> \o FindIter(text, m.next, table)
             ELSE FindIter(text, from + 1, table)

(***************************************************************************)
(* Splitting a value list into records: re.split(r"\),\s*\(", vals[1:-1])  *)
(***************************************************************************)
\* The position after a match of \),\s*\( starting at p, and 0 when none.
BoundaryEnd(s, p) ==
    IF p + 2 <= Len(s) /\ s[p] = ")" /\ s[p + 1] = ","
    THEN LET q == SkipSpaces(s, p + 2)
         IN  IF q <= Len(s) /\ s[q] = "(" THEN q + 1 ELSE 0
    ELSE 0

RECURSIVE ReSplit(_, _, _)
\* re.split: start is where the current piece began, p the scan position
ReSplit(s, start, p) ==
    IF p > Len(s) THEN <<SubSeq(s, start, Len(s))>>
    ELSE LET q == BoundaryEnd(s, p)
         IN  IF q = 0 THEN ReSplit(s, start, p + 1)
             ELSE <<SubSeq(s, start, p - 1)>> \o ReSplit(s, q, q)

\* lines 52-61: the records of one captured group
SplitValueList(group) ==
    LET vals == Strip(group)
    IN  IF Len(vals) >= 1 /\ vals[1] = "(" /\ vals[Len(vals)] = ")"
        THEN ReSplit(SubSeq(vals, 2, Len(vals) - 1), 1, 1)
        ELSE <<vals>>

(***************************************************************************)
(* split_sql_values: the tokenizer, one loop iteration at a time.          *)
(* A scan state is [i, cur, res, in_quote, quote_char].                    *)
(***************************************************************************)
ScanInit == [i |-> 1, cur |-> <<>>, res |-> <<>>,
             in_quote |-> FALSE, quote_char |-> ""]

\* a comma ends the field only outside quotes (line 88)
IsBoundaryAnyComma(ch, in_quote) == ch = ","

IsBoundary(ch, in_quote) == ch = "," /\ ~in_quote

\* one iteration of the while loop (lines 71-93)
ScanStep(s, st) ==
    LET ch == s[st.i]
    IN  IF ch \in QuoteChars
        THEN IF ~st.in_quote
             THEN [st EXCEPT !.in_quote = TRUE, !.quote_char = ch,
                             !.i = st.i + 1]
             ELSE IF ch = st.quote_char
             THEN IF st.i + 1 <= Len(s) /\ s[st.i + 1] = st.quote_char
                  THEN [st EXCEPT !.cur = Append(st.cur, st.quote_char),
                                  !.i = st.i + 2]
                  ELSE [st EXCEPT !.in_quote = FALSE, !.quote_char = "",
                                  !.i = st.i + 1]
             ELSE [st EXCEPT !.cur = Append(st.cur, ch), !.i = st.i + 1]
        ELSE IF IsBoundary(ch, st.in_quote)
        THEN [st EXCEPT !.res = Append(st.res, Strip(st.cur)),
                        !.cur = <<>>, !.i = st.i + 1]
        ELSE [st EXCEPT !.cur = Append(st.cur, ch), !.i = st.i + 1]

\* line 94: the field in progress is flushed at the end of the string
ScanFlush(st) == Append(st.res, Strip(st.cur))

RECURSIVE ScanFrom(_, _)
ScanFrom(s, st) ==
    IF st.i > Len(s) THEN ScanFlush(st) ELSE ScanFrom(s, ScanStep(s, st))

\* split_sql_values(s) as a whole
split_sql_values(s) == ScanFrom(s, ScanInit)

\* line 99: clean = [p.strip().strip("'\"") for p in parts]
CleanField(p) == StripSet(Strip(p), QuoteChars)

Clean(parts) == [k \in 1..Len(parts) |-> CleanField(parts[k])]

RECURSIVE ItemsOfRecords(_)
ItemsOfRecords(recs) ==
    IF recs = <<>> THEN <<>>
    ELSE <<Clean(split_sql_values(Head(recs)))>> \o ItemsOfRecords(Tail(recs))

RECURSIVE ItemsOfGroups(_)
ItemsOfGroups(gs) ==
    IF gs = <<>> THEN <<>>
    ELSE ItemsOfRecords(SplitValueList(Head(gs))) \o ItemsOfGroups(Tail(gs))

\* lines 49-100: the rows parse_sql_inserts accumulates for a text
ParseItems(text, table) == ItemsOfGroups(FindIter(text, 1, table))

(***************************************************************************)
(* Table construction (lines 101-107) and load_restaurants (lines 120-126).*)
(* A table is [cols, rows]; a cell is a text or Missing.                   *)
(***************************************************************************)
\* the None a short row is padded with by the DataFrame constructor
Missing == <<"None">>

EmptyFrame == [cols |-> <<>>, rows |-> <<>>]

MaxOf(S) == CHOOSE n \in S : \A m \in S : n >= m

\* what the docstring describes: the width of the first record
ColumnCountFirst(items) == Len(items[1])

\* line 104: max_cols = max(len(r) for r in items)
ColumnCount(items) == MaxOf({Len(items[k]) : k \in 1..Len(items)})

\* lines 101-107: pd.DataFrame(items, columns=[col_1 .. col_max])
BuildFrame(items) ==
    IF items = <<>> THEN EmptyFrame
    ELSE LET max_cols == ColumnCount(items)
         IN  [cols |-> [k \in 1..max_cols |-> "col_" \o ToString(k)],
              rows |-> [r \in 1..Len(items) |->
                          [k \in 1..max_cols |->
                             IF k <= Len(items[r]) THEN items[r][k]
                             ELSE Missing]]]

\* DataFrame.empty: some axis has length 0
IsEmptyFrame(df) == Len(df.cols) = 0 \/ Len(df.rows) = 0

RestaurantSchema == <<"restaurant_id", "restaurant_name", "cuisine", "rating">>

\* a slip of the threshold: more than four columns
ShouldRenameOver(df) == Len(df.cols) > 4

\* line 124: if df.shape[1] >= 4
ShouldRename(df) == Len(df.cols) >= 4

\* line 125: rename the first four columns, leave the rest and the rows
RenameFirstFour(df) ==
    IF ShouldRename(df)
    THEN [df EXCEPT !.cols = [k \in 1..Len(df.cols) |->
                                IF k <= 4 THEN RestaurantSchema[k]
                                ELSE df.cols[k]]]
    ELSE df

(***************************************************************************)
(* create_final_dataset and coerce_and_clean, as far as the column names   *)
(* and the exceptions go (the rows of orders and users are not modelled).  *)
(***************************************************************************)
Range(seq) == {seq[k] : k \in 1..Len(seq)}

\* DataFrame.add_prefix
AddPrefix(cols, prefix) == [k \in 1..Len(cols) |-> prefix \o cols[k]]

\* the columns of left.merge(right, left_on=.., right_on=..): a name on both
\* sides gets the suffixes _x and _y
MergeCols(left, right) ==
    [k \in 1..Len(left) |->
        IF left[k] \in Range(right) THEN left[k] \o "_x" ELSE left[k]]
    \o
    [k \in 1..Len(right) |->
        IF right[k] \in Range(left) THEN right[k] \o "_y" ELSE right[k]]

\* df[name] = ... : a new column goes last, an existing one stays in place
SetCol(cols, name) == IF name \in Range(cols) THEN cols ELSE Append(cols, name)

\* lines 161: orders.merge(users.add_prefix('user_'), ...)
MergedUsers(o, u) == MergeCols(o, AddPrefix(u, "user_"))

\* line 164: merged.merge(restaurants.add_prefix('restaurant_'), ...)
MergedAll(o, u, r) == MergeCols(MergedUsers(o, u), AddPrefix(r, "restaurant_"))

\* lines 168-181: the flattened names
Flattened(m) ==
    LET a == IF "user_name" \in Range(m) THEN SetCol(m, "name") ELSE m
        b == IF "user_city" \in Range(a) THEN SetCol(a, "city") ELSE a
        c == IF "user_membership" \in Range(b) THEN SetCol(b, "membership") ELSE b
        d == IF "restaurant_name" \in Range(c) THEN SetCol(c, "restaurant_name") ELSE c
        e == IF "restaurant_cuisine" \in Range(d) THEN SetCol(d, "cuisine") ELSE d
    IN  IF "restaurant_rating" \in Range(e) THEN SetCol(e, "rating") ELSE e

OrderDetailCols == <<"order_id", "customer", "user_id", "restaurant_id", "item",
                     "quantity", "price", "total_amount", "date">>
UserInfoCols == <<"name", "city", "membership", "user_user_id">>
RestaurantInfoCols == <<"restaurant_id", "restaurant_name", "cuisine", "rating">>

RECURSIVE KeepFrom(_, _, _)
\* one of the loops of lines 186-196: append the wanted names that exist
\* and are not kept yet
KeepFrom(wanted, m, keep) ==
    IF wanted = <<>> THEN keep
    ELSE KeepFrom(Tail(wanted), m,
                  IF Head(wanted) \in Range(m) /\ Head(wanted) \notin Range(keep)
                  THEN Append(keep, Head(wanted)) ELSE keep)

\* lines 184-199
KeepCols(m) ==
    LET k1 == KeepFrom(OrderDetailCols, m, <<>>)
        k2 == KeepFrom(UserInfoCols, m, k1)
        k3 == KeepFrom(RestaurantInfoCols, m, k2)
    IN  IF "__source_file" \in Range(m) THEN Append(k3, "__source_file") ELSE k3

\* coerce_and_clean line 139: final.get('total_amount', 0) is the number 0
\* when the column is absent, and a number has no fillna
CoerceRaises(keep) ==
    /\ ~({"quantity", "price"} \subseteq Range(keep))
    /\ "total_amount" \notin Range(keep)

\* the outcome of create_final_dataset: [err, cols]
create_final_dataset(o, u, r) ==
    IF "user_id" \notin Range(o) \/ "user_id" \notin Range(u)
    THEN [err |-> "KeyError", cols |-> <<>>]
    ELSE IF "restaurant_id" \notin Range(MergedUsers(o, u))
            \/ "restaurant_id" \notin Range(r)
    THEN [err |-> "KeyError", cols |-> <<>>]
    ELSE LET keep == KeepCols(Flattened(MergedAll(o, u, r)))
         IN  IF CoerceRaises(keep)
             THEN [err |-> "AttributeError", cols |-> <<>>]
             ELSE [err |-> "", cols |-> SetCol(keep, "total_amount")]

(***************************************************************************)
(* main: which sources exist (lines 211-225).                              *)
(***************************************************************************)
None == "None"

orders_candidates == <<"order.csv", "orders.csv">>
users_candidates == <<"user.json", "users.json">>
restaurants_sql_candidates == <<"restaurrent.sql", "restaurent.sql", "restaurants.sql">>
restaurants_csv == "restaurants.csv"

\* next((base / p for p in candidates if (base / p).exists()), None)
FirstExisting(candidates, files) ==
    LET hits == {k \in 1..Len(candidates) : candidates[k] \in files}
    IN  IF hits = {} THEN None
        ELSE candidates[CHOOSE k \in hits : \A m \in hits : k <= m]

\* a driver that forgets the users check
SourceMissingOrdersOnly(files) == FirstExisting(orders_candidates, files) = None

\* lines 222-225: the two checks that raise FileNotFoundError
SourceMissing(files) ==
    \/ FirstExisting(orders_candidates, files) = None
    \/ FirstExisting(users_candidates, files) = None

(***************************************************************************)
(* Inputs.  A SQL text is rendered from a list of statements, each         *)
(* [table, style, tuples]; a tuple is a list of literals [q, c]: q is the  *)
(* quote character ("" for an unquoted literal, written verbatim) and c    *)
(* the content the literal denotes.                                        *)
(***************************************************************************)
Strs(alphabet, n) == UNION {[1..k -> alphabet] : k \in 0..n}

Unq(c) == [q |-> "", c |-> c]
Quo(q, c) == [q |-> q, c |-> c]

RECURSIVE EscapeQuotes(_, _)
\* SQL escaping: the quote character is doubled inside the literal
EscapeQuotes(c, q) ==
    IF c = <<>> THEN <<>>
    ELSE (IF Head(c) = q THEN <<q, q>> ELSE <<Head(c)>>) \o EscapeQuotes(Tail(c), q)

RenderLiteral(l) ==
    IF l.q = "" THEN l.c ELSE <<l.q>> \o EscapeQuotes(l.c, l.q) \o <<l.q>>

RECURSIVE Join(_, _)
Join(parts, sep) ==
    IF parts = <<>> THEN <<>>
    ELSE IF Len(parts) = 1 THEN parts[1]
    ELSE parts[1] \o sep \o Join(Tail(parts), sep)

RenderTuple(t) ==
    <<"(">> \o Join([k \in 1..Len(t) |-> RenderLiteral(t[k])], <<",">>) \o <<")">>

TblRestaurants == <<"r","e","s","t","a","u","r","a","n","t","s">>
TblUsers == <<"u","s","e","r","s">>

RenderStmt(st) ==
    LET tuples == Join([k \in 1..Len(st.tuples) |-> RenderTuple(st.tuples[k])], <<",">>)
    IN  IF st.style = "upper"
        THEN KwInsert \o <<" ">> \o KwInto \o <<" ">> \o st.table \o <<" ">>
             \o KwValues \o <<" ">> \o tuples \o <<";">>
        ELSE <<"i","n","s","e","r","t"," ","i","n","t","o","\n", Backtick>>
             \o st.table \o <<Backtick, " ", "v","a","l","u","e","s">>
             \o tuples \o <<";">>

RenderText(stmts) ==
    Join([k \in 1..Len(stmts) |-> RenderStmt(stmts[k])], <<"\n">>)

Stmt(table, style, tuples) == [table |-> table, style |-> style, tuples |-> tuples]

\* the names of every file main looks for
AllFiles == {"order.csv", "orders.csv", "user.json", "users.json",
             "restaurrent.sql", "restaurent.sql", "restaurants.sql",
             "restaurants.csv"}
SqlOnlyFiles == {"orders.csv", "users.json", "restaurants.sql"}
CsvFiles == {"orders.csv", "users.json", "restaurants.csv"}

OrdersUniverse == <<"order_id", "user_id", "restaurant_id", "restaurant_name",
                    "quantity", "price", "total_amount">>
OrdersOptional == {"user_id", "restaurant_id", "restaurant_name", "quantity",
                   "total_amount"}
FullOrders == <<"order_id", "user_id", "restaurant_id", "quantity", "price",
                "total_amount">>
UsersUniverse == <<"user_id", "name", "city", "membership">>
UsersOptional == {"user_id", "name", "membership"}

Pick(universe, optional, chosen) ==
    SelectSeq(universe, LAMBDA c : c \notin optional \/ c \in chosen)

\* ordersEmpty: the orders file holds a header and no rows
Input(files, stmts, oc, uc, cc, empty) ==
    [files |-> files, stmts |-> stmts, text |-> RenderText(stmts),
     ordersCols |-> oc, usersCols |-> uc, csvCols |-> cc, ordersEmpty |-> empty]

SqlInput(stmts) ==
    Input(SqlOnlyFiles, stmts, FullOrders, UsersUniverse, <<>>, FALSE)

\* one restaurants statement (1,'b','c',4)
ShortStmts ==
    <<Stmt(TblRestaurants, "upper",
           << <<Unq(<<"1">>), Quo("'", <<"b">>), Quo("'", <<"c">>), Unq(<<"4">>)>> >>)>>

\* the statement of the specification's end-to-end scenario
ExampleStmts ==
    <<Stmt(TblRestaurants, "upper",
           << <<Unq(<<"1">>), Quo("'", <<"C","a","f","e"," ","A">>),
                Quo("'", <<"C","a","f","e">>), Unq(<<"4",".","1">>)>>,
              <<Unq(<<"2">>), Quo("'", <<"P","l","a","c","e"," ","B">>),
                Quo("'", <<"I","t","a","l","i","a","n">>), Unq(<<"3",".","9">>)>> >>)>>

\* a record string handed to the tokenizer as it is: any text of these characters
RawAlphabet == {"'", "\"", ",", "a", " "}
RawInputs ==
    {SqlInput(<<Stmt(TblRestaurants, "upper", << <<Unq(r)>> >>)>>) :
        r \in Strs(RawAlphabet, MaxRawLen)}

\* one quoted literal, alone or after an unquoted one
ContentAlphabet == {"'", "\"", ",", "a", " "}
QuotedInputs ==
    {SqlInput(<<Stmt(TblRestaurants, "upper", << t >>)>>) :
        t \in UNION {{<<Quo(q, c)>>, <<Unq(<<"1">>), Quo(q, c)>>} :
                        q \in QuoteChars, c \in Strs(ContentAlphabet, MaxContentLen)}}

\* texts of several statements, for restaurants and for another table
StmtA == Stmt(TblRestaurants, "upper", << <<Unq(<<"1">>), Quo("'", <<"a">>)>> >>)
StmtB == Stmt(TblRestaurants, "lower",
              << <<Unq(<<"2">>), Quo("'", <<"b">>)>>, <<Unq(<<"3">>), Quo("\"", <<"c">>)>> >>)
StmtOther == Stmt(TblUsers, "upper", << <<Unq(<<"7">>), Quo("'", <<"z">>)>> >>)
MultiInputs ==
    {SqlInput(ss) : ss \in UNION {[1..k -> {StmtA, StmtB, StmtOther}] : k \in 1..MaxStmts}}

\* one statement whose tuples differ in width
RaggedTuple(w) ==
    [k \in 1..w |-> IF k = 1 THEN Unq(<<"1">>) ELSE Unq(<<LowerCase[k]>>)]
RaggedInputs ==
    {SqlInput(<<Stmt(TblRestaurants, "upper",
                     [k \in 1..Len(ws) |-> RaggedTuple(ws[k])])>>) :
        ws \in UNION {[1..n -> 1..MaxWidth] : n \in 1..MaxRecs}}

\* every combination of present and absent source files, the orders file
\* with rows or without
FileInputs ==
    {Input(fs, ShortStmts, FullOrders, UsersUniverse, RestaurantSchema, empty) :
        fs \in SUBSET AllFiles, empty \in BOOLEAN}

\* orders and users tables with and without the columns the merge reads
ColumnInputs ==
    {Input(fs, ShortStmts, Pick(OrdersUniverse, OrdersOptional, oc),
           Pick(UsersUniverse, UsersOptional, uc), RestaurantSchema, FALSE) :
        fs \in {SqlOnlyFiles, CsvFiles},
        oc \in SUBSET OrdersOptional, uc \in SUBSET UsersOptional}

Inputs ==
    RawInputs \cup QuotedInputs \cup MultiInputs \cup RaggedInputs
    \cup {SqlInput(ExampleStmts)} \cup FileInputs \cup ColumnInputs

(***************************************************************************)
(* The state: main's position and locals, and the locals of               *)
(* parse_sql_inserts and split_sql_values while they run.                  *)
(***************************************************************************)
VARIABLES
    input,          \* the files that exist, the SQL text, the tables' columns
    pc,             \* where main is
    err,            \* the exception that ended the run ("" when none)
    raised_by,      \* the function that raised it
    orders, users,  \* the columns of the loaded orders and users tables
    groups,         \* the matches finditer has still to yield
    records,        \* the records of the current match still to tokenize
    s,              \* the record being tokenized
    i, cur, res, in_quote, quote_char,   \* split_sql_values' locals
    unquoted_commas,\* history: commas scanned with in_quote false, this record
    items,          \* the rows accumulated so far
    parsed,         \* the table parse_sql_inserts returned
    restaurants,    \* the restaurants table main holds
    final,          \* the columns of the final dataset
    written         \* final_food_delivery_dataset.csv has been written

vars == <<input, pc, err, raised_by, orders, users, groups, records, s, i, cur,
          res, in_quote, quote_char, unquoted_commas, items, parsed,
          restaurants, final, written>>

scanVars == <<s, i, cur, res, in_quote, quote_char, unquoted_commas>>
parseVars == <<groups, records, items, parsed>>
mainVars == <<orders, users, restaurants, final, written>>

Init ==
    /\ input \in Inputs
    /\ pc = "main"
    /\ err = ""
    /\ raised_by = ""
    /\ orders = <<>>
    /\ users = <<>>
    /\ groups = <<>>
    /\ records = <<>>
    /\ s = <<>>
    /\ i = 1
    /\ cur = <<>>
    /\ res = <<>>
    /\ in_quote = FALSE
    /\ quote_char = ""
    /\ unquoted_commas = 0
    /\ items = <<>>
    /\ parsed = EmptyFrame
    /\ restaurants = EmptyFrame
    /\ final = <<>>
    /\ written = FALSE

Raise(e, by) ==
    /\ pc' = "raised"
    /\ err' = e
    /\ raised_by' = by

\* main, lines 211-225: find the sources, stop when orders or users is missing
ResolveSources ==
    /\ pc = "main"
    /\ IF SourceMissing(input.files)
       THEN Raise("FileNotFoundError", "main")
       ELSE pc' = "load" /\ UNCHANGED <<err, raised_by>>
    /\ UNCHANGED <<input, scanVars, parseVars, mainVars>>

\* main, lines 227-228: load_orders (lines 21-29; the path main passes
\* exists) and load_users (lines 32-41)
LoadOrdersUsers ==
    /\ pc = "load"
    /\ IF input.ordersEmpty
       THEN Raise("ValueError", "load_orders") /\ UNCHANGED <<orders, users>>
       ELSE /\ orders' = input.ordersCols
            /\ users' = input.usersCols
            /\ pc' = "restaurants"
            /\ UNCHANGED <<err, raised_by>>
    /\ UNCHANGED <<input, scanVars, parseVars, restaurants, final, written>>

\* main, lines 231-232: restaurants.csv exists and is read
ReadRestaurantsCsv ==
    /\ pc = "restaurants"
    /\ restaurants_csv \in input.files
    /\ restaurants' = [cols |-> input.csvCols, rows |-> <<>>]
    /\ pc' = "merge"
    /\ UNCHANGED <<input, err, raised_by, scanVars, parseVars, orders, users,
                   final, written>>

\* main, lines 233-234, load_restaurants lines 116-119 and the finditer call
\* of parse_sql_inserts: the SQL file is read and matched
LoadRestaurantsSql ==
    /\ pc = "restaurants"
    /\ restaurants_csv \notin input.files
    /\ FirstExisting(restaurants_sql_candidates, input.files) # None
    /\ groups' = FindIter(input.text, 1, TblRestaurants)
    /\ pc' = "stmt"
    /\ UNCHANGED <<input, err, raised_by, scanVars, records, items, parsed,
                   mainVars>>

\* main, lines 235-237: no restaurants source, an empty table stands in
NoRestaurantsSource ==
    /\ pc = "restaurants"
    /\ restaurants_csv \notin input.files
    /\ FirstExisting(restaurants_sql_candidates, input.files) = None
    /\ restaurants' = [cols |-> RestaurantSchema, rows |-> <<>>]
    /\ pc' = "merge"
    /\ UNCHANGED <<input, err, raised_by, scanVars, parseVars, orders, users,
                   final, written>>

\* parse_sql_inserts, lines 51-61: the next match and its records
NextStatement ==
    /\ pc = "stmt"
    /\ groups # <<>>
    /\ records' = SplitValueList(Head(groups))
    /\ groups' = Tail(groups)
    /\ pc' = "rec"
    /\ UNCHANGED <<input, err, raised_by, scanVars, items, parsed, mainVars>>

\* lines 62 and 65-69: the next record enters split_sql_values
NextRecord ==
    /\ pc = "rec"
    /\ records # <<>>
    /\ s' = Head(records)
    /\ records' = Tail(records)
    /\ i' = ScanInit.i
    /\ cur' = ScanInit.cur
    /\ res' = ScanInit.res
    /\ in_quote' = ScanInit.in_quote
    /\ quote_char' = ScanInit.quote_char
    /\ unquoted_commas' = 0
    /\ pc' = "scan"
    /\ UNCHANGED <<input, err, raised_by, groups, items, parsed, mainVars>>

ScanState == [i |-> i, cur |-> cur, res |-> res, in_quote |-> in_quote,
              quote_char |-> quote_char]

\* lines 70-93: one iteration of the tokenizer's loop
ScanChar ==
    /\ pc = "scan"
    /\ i <= Len(s)
    /\ LET st == ScanStep(s, ScanState)
       IN  /\ i' = st.i
           /\ cur' = st.cur
           /\ res' = st.res
           /\ in_quote' = st.in_quote
           /\ quote_char' = st.quote_char
    /\ unquoted_commas' =
          IF s[i] = "," /\ ~in_quote THEN unquoted_commas + 1 ELSE unquoted_commas
    /\ UNCHANGED <<input, pc, err, raised_by, s, parseVars, mainVars>>

\* lines 94-100: the last field is flushed, the fields are cleaned and the
\* row is appended
FlushRecord ==
    /\ pc = "scan"
    /\ i > Len(s)
    /\ res' = ScanFlush(ScanState)
    /\ items' = Append(items, Clean(res'))
    /\ pc' = IF records = <<>> THEN "stmt" ELSE "rec"
    /\ UNCHANGED <<input, err, raised_by, s, i, cur, in_quote, quote_char,
                   unquoted_commas, groups, records, parsed, mainVars>>

\* lines 101-107: the table is built once every match is consumed
Materialize ==
    /\ pc = "stmt"
    /\ groups = <<>>
    /\ parsed' = BuildFrame(items)
    /\ pc' = "rename"
    /\ UNCHANGED <<input, err, raised_by, scanVars, groups, records, items,
                   mainVars>>

\* load_restaurants, lines 120-126
FinishLoadRestaurants ==
    /\ pc = "rename"
    /\ IF IsEmptyFrame(parsed)
       THEN Raise("ValueError", "load_restaurants") /\ UNCHANGED restaurants
       ELSE /\ restaurants' = RenameFirstFour(parsed)
            /\ pc' = "merge"
            /\ UNCHANGED <<err, raised_by>>
    /\ UNCHANGED <<input, scanVars, parseVars, orders, users, final, written>>

\* main, line 239
CreateFinalDataset ==
    /\ pc = "merge"
    /\ LET out == create_final_dataset(orders, users, restaurants.cols)
       IN  IF out.err # ""
           THEN Raise(out.err, "create_final_dataset") /\ UNCHANGED final
           ELSE /\ final' = out.cols
                /\ pc' = "write"
                /\ UNCHANGED <<err, raised_by>>
    /\ UNCHANGED <<input, scanVars, parseVars, orders, users, restaurants,
                   written>>

\* main, lines 241-243
WriteOutput ==
    /\ pc = "write"
    /\ written' = TRUE
    /\ pc' = "done"
    /\ UNCHANGED <<input, err, raised_by, scanVars, parseVars, orders, users,
                   restaurants, final>>

Next ==
    \/ ResolveSources
    \/ LoadOrdersUsers
    \/ ReadRestaurantsCsv
    \/ LoadRestaurantsSql
    \/ NoRestaurantsSource
    \/ NextStatement
    \/ NextRecord
    \/ ScanChar
    \/ FlushRecord
    \/ Materialize
    \/ FinishLoadRestaurants
    \/ CreateFinalDataset
    \/ WriteOutput

Spec == Init /\ [][Next]_vars

(***************************************************************************)
(* What the input denotes, for the properties below.                       *)
(***************************************************************************)
Count(seq, c) == Cardinality({k \in 1..Len(seq) : seq[k] = c})

IsRestaurants(st) == st.table = TblRestaurants

\* the tuples of a statement as rows of literal values
RowsOf(st) ==
    [r \in 1..Len(st.tuples) |->
        [k \in 1..Len(st.tuples[r]) |-> st.tuples[r][k].c]]

RECURSIVE ExpectedRows(_)
\* the tuples of the restaurants statements, in document order
ExpectedRows(stmts) ==
    IF stmts = <<>> THEN <<>>
    ELSE (IF IsRestaurants(Head(stmts)) THEN RowsOf(Head(stmts)) ELSE <<>>)
         \o ExpectedRows(Tail(stmts))

AllLiterals(stmts) ==
    UNION {UNION {Range(stmts[n].tuples[r]) : r \in 1..Len(stmts[n].tuples)} :
              n \in 1..Len(stmts)}

\* an unquoted literal as SQL writes one: no quote, comma, parenthesis,
\* semicolon or whitespace
PlainUnquoted(l) ==
    /\ l.q = ""
    /\ l.c # <<>>
    /\ \A k \in 1..Len(l.c) :
          l.c[k] \notin {"'", "\"", ",", "(", ")", ";", " ", "\t", "\n", "\r"}

\* a quoted literal whose content is plain text without surrounding blanks
PlainQuoted(l) ==
    /\ l.q \in QuoteChars
    /\ l.c # <<>>
    /\ \A k \in 1..Len(l.c) : l.c[k] \notin {"'", "\"", ",", "(", ")", ";"}
    /\ ~IsSpace(l.c[1]) /\ ~IsSpace(l.c[Len(l.c)])

PlainStmts(stmts) ==
    \A l \in AllLiterals(stmts) : PlainUnquoted(l) \/ PlainQuoted(l)

\* parse_sql_inserts has consumed every match and built its table
ParseDone == pc = "rename"

(***************************************************************************)
(* C1 (as claimed): for a text of k >= 1 restaurants statements the rows   *)
(* are exactly the tuples of all k statements, in document order.          *)
(***************************************************************************)
C1_RowsAreAllTuples ==
    (/\ ParseDone
     /\ PlainStmts(input.stmts)
     /\ \A n \in 1..Len(input.stmts) : IsRestaurants(input.stmts[n]))
    => items = ExpectedRows(input.stmts)

(***************************************************************************)
(* C2 (as claimed): statements for other tables are ignored: the rows are  *)
(* those of the text without them, and no character of another table's     *)
(* statement (its values are 7 and z) reaches a field.                     *)
(***************************************************************************)
C2_OtherTablesIgnored ==
    (ParseDone /\ PlainStmts(input.stmts))
    => /\ items = ParseItems(RenderText(SelectSeq(input.stmts, IsRestaurants)),
                             TblRestaurants)
       /\ \A r \in 1..Len(items) : \A k \in 1..Len(items[r]) :
             Count(items[r][k], "7") = 0 /\ Count(items[r][k], "z") = 0

OneTuple ==
    /\ Len(input.stmts) = 1
    /\ IsRestaurants(input.stmts[1])
    /\ Len(input.stmts[1].tuples) = 1
    /\ \A l \in AllLiterals(input.stmts) : PlainUnquoted(l) \/ l.q \in QuoteChars

(***************************************************************************)
(* C3 (as claimed): every doubled quote inside a quoted literal yields     *)
(* exactly one quote character in the final field, wherever it stands.     *)
(***************************************************************************)
C3_EscapedQuoteKept ==
    (ParseDone /\ OneTuple)
    => LET t == input.stmts[1].tuples[1]
       IN  /\ Len(items) = 1
           /\ Len(items[1]) = Len(t)
           /\ \A k \in 1..Len(t) :
                 t[k].q \in QuoteChars
                 => Count(items[1][k], t[k].q) = Count(t[k].c, t[k].q)

(***************************************************************************)
(* C4 (as claimed): when no quoted literal holds a comma, field j of row i *)
(* is the j-th literal of the i-th tuple, a quoted literal being the exact *)
(* content between its quotes.  Stated for literals without escaped        *)
(* quotes, so that it does not rest on C3.                                 *)
(***************************************************************************)
C4_LiteralsReproduced ==
    (/\ ParseDone
     /\ OneTuple
     /\ \A l \in AllLiterals(input.stmts) :
           l.q \in QuoteChars => Count(l.c, ",") = 0 /\ Count(l.c, l.q) = 0)
    => items = ExpectedRows(input.stmts)

Flushed == pc \in {"stmt", "rec"} /\ items # <<>>

(***************************************************************************)
(* C5: the tokenizer emits a field boundary only at a comma scanned        *)
(* outside quotes and always flushes the last field: while scanning, res   *)
(* holds one field per unquoted comma; once flushed it holds one more,     *)
(* and the row appended has that many fields.  A record without quote      *)
(* characters splits at each of its commas; an empty record gives one      *)
(* empty field.                                                            *)
(***************************************************************************)
C5_FieldCount ==
    /\ pc = "scan" => Len(res) = unquoted_commas
    /\ Flushed =>
         /\ Len(res) = 1 + unquoted_commas
         /\ Len(items[Len(items)]) = Len(res)
         /\ (\A k \in 1..Len(s) : s[k] \notin QuoteChars)
               => Len(res) = 1 + Count(s, ",")
         /\ s = <<>> => res = << <<>> >>

\* C5 witness: a record with a comma inside quotes has been tokenized
C5_Witness ==
    /\ Flushed
    /\ Count(s, ",") > unquoted_commas
    /\ Len(res) = 1

ExampleTable ==
    [cols |-> RestaurantSchema,
     rows |-> << <<<<"1">>, <<"C","a","f","e"," ","A">>, <<"C","a","f","e">>,
                   <<"4",".","1">>>>,
                 <<<<"2">>, <<"P","l","a","c","e"," ","B">>,
                   <<"I","t","a","l","i","a","n">>, <<"3",".","9">>>> >>]

\* load_restaurants has returned the table it parsed
LoadedFromSql == pc = "merge" /\ ~IsEmptyFrame(parsed)

(***************************************************************************)
(* C7: load_restaurants renames the first four columns when the parsed     *)
(* table has at least four, keeps the placeholder names of the others,     *)
(* leaves the rows as they are, and renames nothing in a narrower table;   *)
(* the end-to-end scenario gives the 2-row, 4-column table.                *)
(***************************************************************************)
C7_RenameFrame ==
    LoadedFromSql
    => LET n == Len(parsed.cols)
       IN  /\ Len(restaurants.cols) = n
           /\ restaurants.rows = parsed.rows
           /\ n >= 4 => /\ SubSeq(restaurants.cols, 1, 4) = RestaurantSchema
                        /\ \A k \in 5..n :
                              restaurants.cols[k] = "col_" \o ToString(k)
           /\ n < 4 => \A k \in 1..n : restaurants.cols[k] = "col_" \o ToString(k)
           /\ input.stmts = ExampleStmts => restaurants = ExampleTable

\* C7 witness: the end-to-end scenario has been loaded and renamed
C7_Witness ==
    /\ LoadedFromSql
    /\ input.stmts = ExampleStmts
    /\ restaurants.cols = RestaurantSchema
    /\ Len(restaurants.rows) = 2

OrdersAbsent == FirstExisting(orders_candidates, input.files) = None
UsersAbsent == FirstExisting(users_candidates, input.files) = None
RestaurantsAbsent ==
    /\ restaurants_csv \notin input.files
    /\ FirstExisting(restaurants_sql_candidates, input.files) = None

\* C8 (as claimed): with any expected source absent the run never reaches
\* the merge and never writes the output file.
C8_AnyMissingSourceAborts ==
    (OrdersAbsent \/ UsersAbsent \/ RestaurantsAbsent)
    => ~written /\ pc \notin {"merge", "write", "done"}

\* C8 (amended): with the orders or the users file absent the run ends in
\* FileNotFoundError before anything is loaded and the output file is never
\* written; with only the restaurants source absent no not-found error is
\* raised: once orders and users are loaded, an empty table with the four
\* restaurant columns stands in and the run goes on to the merge.
C8_OrdersOrUsersMissingAborts ==
    /\ (OrdersAbsent \/ UsersAbsent)
          => /\ ~written
             /\ pc \in {"main", "raised"}
             /\ pc = "raised" => err = "FileNotFoundError" /\ raised_by = "main"
    /\ (~OrdersAbsent /\ ~UsersAbsent)
          => /\ err # "FileNotFoundError"
             /\ (/\ RestaurantsAbsent
                 /\ pc \notin {"main", "load", "restaurants"}
                 /\ raised_by # "load_orders")
                   => /\ restaurants = [cols |-> RestaurantSchema, rows |-> <<>>]
                      /\ pc \in {"merge", "write", "done"}
                         \/ raised_by = "create_final_dataset"

\* C8 witness: the output file has been written although no restaurants
\* source exists
C8_Witness == RestaurantsAbsent /\ written /\ pc = "done"

(***************************************************************************)
(* C9 (as claimed): with the SQL file present, a parse outcome of short    *)
(* or ragged records never makes load_restaurants or create_final_dataset  *)
(* raise.  (Stated for outcomes of at least one record; with none,         *)
(* load_restaurants raises ValueError at line 121.)  The orders and users  *)
(* tables carry every column the merge reads.                              *)
(***************************************************************************)
C9_ShortOrRaggedNeverRaises ==
    (/\ restaurants_csv \notin input.files
     /\ FirstExisting(restaurants_sql_candidates, input.files) # None
     /\ input.ordersCols = FullOrders
     /\ input.usersCols = UsersUniverse
     /\ items # <<>>)
    => ~(pc = "raised" /\ raised_by \in {"load_restaurants", "create_final_dataset"})

(***************************************************************************)
(* C10 (as claimed): when orders has restaurant_id and the restaurants     *)
(* table has restaurant_id, restaurant_name, cuisine and rating, the final *)
(* dataset has the columns restaurant_name, cuisine and rating, as it has  *)
(* name, city and membership of a users table that carries them.           *)
(***************************************************************************)
C10_RestaurantColumnsKept ==
    (/\ pc \in {"write", "done"}
     /\ "restaurant_id" \in Range(orders)
     /\ Range(RestaurantSchema) \subseteq Range(restaurants.cols))
    => /\ {"restaurant_name", "cuisine", "rating"} \subseteq Range(final)
       /\ \A c \in {"name", "city", "membership"} :
             c \in Range(users) => c \in Range(final)

====
